---------------------------- MODULE Spec2Model ----------------------------
(***************************************************************************)
(* A model of altair/vegalite/v2/api.py: the selection algebra, the        *)
(* condition builder, the channel resolver of Chart.encode, the chart      *)
(* objects with their copy-on-write mutation methods and composition       *)
(* operators, and the to_dict serialization pipeline.                      *)
(*                                                                         *)
(* Python objects with identity (charts, selection mappings) live in two   *)
(* heaps, sequences indexed by object id.  Values without identity         *)
(* (documents, channel mappings, predicate nodes) are tagged records.      *)
(***************************************************************************)
EXTENDS Integers, Sequences, FiniteSets, TLC

VARIABLES
    charts,     \* heap of chart objects (Chart and the composed variants)
    sels,       \* heap of SelectionMapping objects: each a function name -> definition
    counter,    \* selection.counter, the module-level auto-naming counter
    created,    \* history: one entry per call of selection(), in call order
    last        \* the last operation: its arguments, and what it returned or raised

vars == <<charts, sels, counter, created, last>>

----------------------------------------------------------------------------
(* Bounds of the model *)

MaxSels == 3        \* SelectionMapping objects a session allocates
MaxCounter == 4     \* value of selection.counter a session reaches
MaxCreated == 2     \* calls of selection() a session makes
MaxCharts == 4      \* chart objects a session allocates
MaxChildren == 2    \* children a variant's list holds before an operator extends it
MaxDocCharts == 2   \* chart objects a session that serializes allocates
MaxComposed == 3    \* chart objects a session that composes allocates

----------------------------------------------------------------------------
(* Results of a call: a returned value or a raised exception *)

Ok(v) == [ok |-> TRUE, val |-> v]
Raise(e) == [ok |-> FALSE, exc |-> e]

\* _get_name's ValueError (the spec's AmbiguousSelectionError)
AmbiguousSelectionError ==
    [cls |-> "ValueError", msg |-> "Selection Mapping has more than one name"]

\* condition's NotImplementedError (the spec's UnsupportedPredicateError)
UnsupportedPredicateError ==
    [cls |-> "NotImplementedError", msg |-> "condition predicate of type"]

\* what Python makes of a binary operator whose method returned NotImplemented
NotImplementedResult == Raise([cls |-> "TypeError", msg |-> "unsupported operand"])

----------------------------------------------------------------------------
(* Names.  A string is kept as its text up to its trailing digits, and     *)
(* those digits, so that "selector{0:03d}".format(n) is computed and an    *)
(* explicit name may spell the same string as an automatic one.            *)

Str(s) == [p |-> s, d |-> <<>>]

RECURSIVE Digits(_)
Digits(n) == IF n < 10 THEN <<n>> ELSE Digits(n \div 10) \o <<n % 10>>

RECURSIVE ZeroPad(_, _)
ZeroPad(ds, width) == IF Len(ds) >= width THEN ds ELSE ZeroPad(<<0>> \o ds, width)

\* "{0:03d}".format(n)
Format03d(n) == ZeroPad(Digits(n), 3)

\* "selector{0:03d}".format(selection.counter)
AutoName(n) == [p |-> "selector", d |-> Format03d(n)]

----------------------------------------------------------------------------
(* Values without identity: Python strings, dicts and lists, schema nodes, *)
(* and the Undefined marker.  A dict is a function from its keys.          *)

Undefined == [tag |-> "undef"]
Leaf(v) == [tag |-> "leaf", v |-> v]             \* a string or number, by its text
NameV(n) == [tag |-> "str", s |-> n]             \* a string that is a selection name
MapV(f) == [tag |-> "map", m |-> f]              \* a dict
ListV(l) == [tag |-> "list", l |-> l]            \* a list
NodeV(cls, f) == [tag |-> "node", cls |-> cls, kwds |-> f]   \* cls(**f), a SchemaBase

IsMapping(v) == v.tag = "map"
IsNode(v) == v.tag = "node"
IsString(v) == v.tag \in {"leaf", "str"}

Key(k, v) == [x \in {k} |-> v]

\* SchemaBase.to_dict of a node holding plain values: its keywords, Undefined ones left out
NodeToDict(v) == MapV([k \in {x \in DOMAIN v.kwds : v.kwds[x] # Undefined} |-> v.kwds[k]])

----------------------------------------------------------------------------
(* SelectionMapping *)

NoKwds == [k \in {} |-> 0]

\* core.SelectionDef(**kwds): the keywords as given
SelectionDef(kwds) == kwds

\* SelectionMapping(**{name: definition})
SelectionMapping1(name, def) == [n \in {name} |-> def]

\* dict.update: the right-hand side's entries overwrite
DictUpdate(a, b) == [n \in DOMAIN a \cup DOMAIN b |-> IF n \in DOMAIN b THEN b[n] ELSE a[n]]

\* SelectionMapping._get_name
GetName(m) ==
    IF Cardinality(DOMAIN m) # 1
    THEN Raise(AmbiguousSelectionError)
    ELSE Ok(CHOOSE n \in DOMAIN m : TRUE)

\* SelectionMapping.ref
InvalidSelectionNameError == [cls |-> "ValueError", msg |-> "is not a valid selection name in this mapping"]


\* SelectionMapping.ref(name); name = None is hasName = FALSE
Ref(m, hasName, name) ==
    LET nm == IF ~hasName /\ Cardinality(DOMAIN m) = 1
              THEN [some |-> TRUE, n |-> CHOOSE n \in DOMAIN m : TRUE]
              ELSE [some |-> hasName, n |-> name]
    IN  IF ~nm.some \/ nm.n \notin DOMAIN m
        THEN Raise(InvalidSelectionNameError)
        ELSE Ok(MapV(Key("selection", NameV(nm.n))))

\* a faulty __add__: on a name collision the left operand's definition stays
AddLeftWins(h, a, b) == [heap |-> Append(h, DictUpdate(h[b], h[a])), res |-> Len(h) + 1]

\* SelectionMapping.__add__ on two mappings of the heap h: a copy of a, updated
SelAdd(h, a, b) == [heap |-> Append(h, DictUpdate(h[a], h[b])), res |-> Len(h) + 1]

\* SelectionMapping.__iadd__: a's own dict is updated, a is returned
SelIAdd(h, a, b) == [heap |-> [h EXCEPT ![a] = DictUpdate(h[a], h[b])], res |-> a]

\* SelectionMapping.__invert__
SelInvert(m) ==
    LET s == GetName(m)
    IN  IF s.ok THEN Ok(NodeV("SelectionNot", Key("not", NameV(s.val)))) ELSE s

\* SelectionMapping.__and__; other is a mapping (isMapping) or a raw name
SelAnd(m, other, isMapping) ==
    LET o == IF isMapping THEN GetName(other) ELSE Ok(other)
        s == GetName(m)
    IN  IF ~o.ok THEN o
        ELSE IF ~s.ok THEN s
        ELSE Ok(NodeV("SelectionAnd", Key("and", ListV(<<NameV(s.val), NameV(o.val)>>))))

\* SelectionMapping.__or__: the node is built with class SelectionAnd (line 93)
SelOr(m, other, isMapping) ==
    LET o == IF isMapping THEN GetName(other) ELSE Ok(other)
        s == GetName(m)
    IN  IF ~o.ok THEN o
        ELSE IF ~s.ok THEN s
        ELSE Ok(NodeV("SelectionAnd", Key("or", ListV(<<NameV(s.val), NameV(o.val)>>))))

\* a faulty selection(): the counter stays as it is
SelectionNoIncrement(cnt, hasName, name, kwds) ==
    LET nm == IF hasName THEN name ELSE AutoName(cnt)
    IN  [name |-> nm, counter |-> cnt, auto |-> ~hasName,
         mapping |-> SelectionMapping1(nm, SelectionDef(kwds))]

\* selection(name, **kwds): the name used, the counter after, the mapping returned
Selection(cnt, hasName, name, kwds) ==
    LET nm == IF hasName THEN name ELSE AutoName(cnt)
    IN  [name |-> nm,
         counter |-> IF hasName THEN cnt ELSE cnt + 1,
         auto |-> ~hasName,
         mapping |-> SelectionMapping1(nm, SelectionDef(kwds))]

\* selection_interval / selection_multi / selection_single: selection(type=..., ...)
SelectionOfType(cnt, hasName, name, type) == Selection(cnt, hasName, name, [type |-> type])

----------------------------------------------------------------------------
(* condition(predicate, if_true, if_false, **kwargs) *)

\* the classes of selection_predicates and of test_predicates (lines 159-163)
SelectionPredicateClasses == {"SelectionNot", "SelectionOr", "SelectionAnd", "SelectionOperand"}
TestPredicateClasses == {"Predicate", "LogicalOperandPredicate", "LogicalNotPredicate",
                         "LogicalOrPredicate", "LogicalAndPredicate"}

\* a faulty normalization: a SelectionMapping becomes a test
ConditionSwapped(predicate) ==
    IF predicate.kind = "selmap"
    THEN LET s == GetName(predicate.m)
         IN  IF s.ok THEN Ok(Key("test", NameV(s.val))) ELSE s
    ELSE IF IsNode(predicate.v) /\ predicate.v.cls \in SelectionPredicateClasses
    THEN Ok(Key("selection", predicate.v))
    ELSE IF IsString(predicate.v)
            \/ (IsNode(predicate.v) /\ predicate.v.cls \in TestPredicateClasses)
    THEN Ok(Key("test", predicate.v))
    ELSE IF IsMapping(predicate.v)
    THEN Ok(predicate.v.m)
    ELSE Raise(UnsupportedPredicateError)

\* lines 165-175; a predicate is [kind |-> "selmap", m |-> mapping], or a value
ConditionOfPredicate(predicate) ==
    IF predicate.kind = "selmap"
    THEN LET s == GetName(predicate.m)
         IN  IF s.ok THEN Ok(Key("selection", NameV(s.val))) ELSE s
    ELSE IF IsNode(predicate.v) /\ predicate.v.cls \in SelectionPredicateClasses
    THEN Ok(Key("selection", predicate.v))
    ELSE IF IsString(predicate.v)
            \/ (IsNode(predicate.v) /\ predicate.v.cls \in TestPredicateClasses)
    THEN Ok(Key("test", predicate.v))
    ELSE IF IsMapping(predicate.v)
    THEN Ok(predicate.v.m)
    ELSE Raise(UnsupportedPredicateError)

\* what dict.update(x) and dict(**x) raise when x is no mapping
NotAMappingError == [cls |-> "TypeError", msg |-> "argument is not a mapping"]
\* dict(condition=..., **if_false) with a 'condition' key in if_false
DuplicateKeywordError == [cls |-> "TypeError", msg |-> "got multiple values for keyword argument"]

\* lines 177-184: the if_true branch as a dict, merged into the condition dict
MergeIfTrue(cond, if_true, kwargs) ==
    IF IsNode(if_true) THEN Ok(DictUpdate(cond, NodeToDict(if_true).m))
    ELSE IF IsString(if_true) THEN Ok(DictUpdate(cond, DictUpdate(Key("field", if_true), kwargs)))
    ELSE IF IsMapping(if_true) THEN Ok(DictUpdate(cond, if_true.m))
    ELSE Raise(NotAMappingError)

\* lines 186-197: the result built around the if_false branch
WrapIfFalse(cond, if_false, kwargs) ==
    IF IsNode(if_false)
    THEN Ok(NodeV(if_false.cls, DictUpdate(if_false.kwds, Key("condition", MapV(cond)))))
    ELSE IF IsString(if_false)
    THEN Ok(MapV(DictUpdate(DictUpdate(Key("condition", MapV(cond)), Key("field", if_false)),
                            kwargs)))
    ELSE IF ~IsMapping(if_false) THEN Raise(NotAMappingError)
    ELSE IF "condition" \in DOMAIN if_false.m THEN Raise(DuplicateKeywordError)
    ELSE Ok(MapV(DictUpdate(Key("condition", MapV(cond)), if_false.m)))

\* condition (lines 139-197)
Condition(predicate, if_true, if_false, kwargs) ==
    LET c == ConditionOfPredicate(predicate)
    IN  IF ~c.ok THEN c
        ELSE LET t == MergeIfTrue(c.val, if_true, kwargs)
             IN  IF ~t.ok THEN t ELSE WrapIfFalse(t.val, if_false, kwargs)

----------------------------------------------------------------------------
(* Inputs of the selection actions *)

\* explicit names a caller passes; the second spells the first automatic name
ExplicitNames == {Str("brush"), [p |-> "selector", d |-> <<0, 0, 1>>]}
TypesUsed == {"interval", "multi"}

Brush == Str("brush")
Zoom == Str("zoom")

\* mappings a caller builds with SelectionMapping(**kwds)
DirectMappings ==
    { NoKwds,
      DictUpdate(SelectionMapping1(Brush, SelectionDef([type |-> "interval"])),
                 SelectionMapping1(Zoom, SelectionDef([type |-> "multi"]))) }

SelIds == 1..Len(sels)

----------------------------------------------------------------------------
(* Actions on selection mappings *)

\* name = selection(name=..., type=...) or selection(type=...)
NewSelection(hasName, name, type) ==
    /\ Len(sels) < MaxSels
    /\ Len(created) < MaxCreated
    /\ counter < MaxCounter
    /\ \E r \in {SelectionOfType(counter, hasName, name, type)} :
           /\ sels' = Append(sels, r.mapping)
           /\ counter' = r.counter
           /\ created' = Append(created, [name |-> r.name, auto |-> r.auto, via |-> "selection"])
           /\ last' = [op |-> "selection", hasName |-> hasName, cnt |-> counter,
                       res |-> Len(sels) + 1, auto |-> r.auto]
    /\ UNCHANGED charts

\* SelectionMapping(**m): a mapping built from its definitions, no name drawn
NewMapping(m) ==
    /\ Len(sels) < MaxSels
    /\ sels' = Append(sels, m)
    /\ last' = [op |-> "SelectionMapping", res |-> Len(sels) + 1]
    /\ UNCHANGED <<charts, counter, created>>

\* sels[a] + sels[b]
AddSel(a, b) ==
    /\ Len(sels) < MaxSels
    /\ \E r \in {SelAdd(sels, a, b)} :
           /\ sels' = r.heap
           /\ last' = [op |-> "sel_add", a |-> a, b |-> b, res |-> r.res,
                       va |-> sels[a], vb |-> sels[b]]
    /\ UNCHANGED <<charts, counter, created>>

\* sels[a] += sels[b]
IAddSel(a, b) ==
    /\ \E r \in {SelIAdd(sels, a, b)} :
           /\ sels' = r.heap
           /\ last' = [op |-> "sel_iadd", a |-> a, b |-> b, res |-> r.res,
                       va |-> sels[a], vb |-> sels[b]]
    /\ UNCHANGED <<charts, counter, created>>

\* sels[a] + x and sels[a] += x for an x that is no SelectionMapping
AddOther(a, inplace) ==
    /\ last' = [op |-> IF inplace THEN "sel_iadd_other" ELSE "sel_add_other",
                a |-> a, res |-> NotImplementedResult]
    /\ UNCHANGED <<charts, sels, counter, created>>

InitSel ==
    /\ charts = <<>>
    /\ sels = <<>>
    /\ counter = 1
    /\ created = <<>>
    /\ last = [op |-> "init"]

NextSel ==
    \/ NewSelection(FALSE, Str("None"), "single")
    \/ \E type \in TypesUsed : NewSelection(TRUE, Brush, type)
    \/ \E m \in DirectMappings \ {NoKwds} : NewMapping(m)
    \/ \E a \in SelIds, b \in SelIds : AddSel(a, b)
    \/ \E a \in SelIds, b \in SelIds : IAddSel(a, b)

SpecSel == InitSel /\ [][NextSel]_vars

----------------------------------------------------------------------------
(* Shorthand strings and the channel resolver of Chart.encode              *)

\* a field string "agg(field):type", a part left out being ""
ShV(agg, fld, type) == [tag |-> "sh", agg |-> agg, fld |-> fld, type |-> type]
PlainStr(fld) == ShV("", fld, "")
IsStr(v) == v.tag \in {"sh", "leaf", "str"}

\* INV_TYPECODE_MAP.get(type_, type_)
TypeOfCode(t) ==
    CASE t = "Q" -> "quantitative"
      [] t = "N" -> "nominal"
      [] t = "O" -> "ordinal"
      [] t = "T" -> "temporal"
      [] OTHER -> t

\* parse_shorthand: the parts the string holds; a count() alone is quantitative
ParseShorthand(sh) ==
    LET fld == IF sh.fld # "" THEN Key("field", PlainStr(sh.fld)) ELSE NoKwds
        agg == IF sh.agg # "" THEN Key("aggregate", Leaf(sh.agg)) ELSE NoKwds
        typ == IF sh.type # "" THEN Key("type", Leaf(TypeOfCode(sh.type)))
               ELSE IF sh.agg = "count" /\ sh.fld = "" THEN Key("type", Leaf("quantitative"))
               ELSE NoKwds
    IN  DictUpdate(DictUpdate(fld, agg), typ)

\* str.title() on the channel names used
Title(prop) ==
    CASE prop = "x" -> "X"
      [] prop = "color" -> "Color"
      [] prop = "foo" -> "Foo"

\* clsname += 'Value'
PlusValue(clsname) ==
    CASE clsname = "X" -> "XValue"
      [] clsname = "Color" -> "ColorValue"
      [] clsname = "Foo" -> "FooValue"

\* the classes of the channels module: a field-bound and a Value class per channel
Channels == {"x", "color"}
ChannelClasses == {Title(c) : c \in Channels} \cup {PlusValue(Title(c)) : c \in Channels}

\* _get_channels_mapping: class -> attr.replace('Value', '').lower()
ChannelOfClass(cls) == CHOOSE c \in Channels : cls \in {Title(c), PlusValue(Title(c))}

UnrecognizedChannelError == [cls |-> "ValueError", msg |-> "Unrecognized encoding channel"]

\* _wrap_in_channel_class(obj, prop); rejects: cls.from_dict raises ValidationError
WrapInChannelClass(obj, prop, rejects) ==
    IF IsNode(obj) THEN Ok(obj)
    ELSE LET m0 == IF IsStr(obj) THEN Key("field", obj) ELSE obj.m
             m1 == IF "field" \in DOMAIN m0
                   THEN DictUpdate(m0, ParseShorthand(m0["field"]))
                   ELSE m0
             cls == IF "value" \in DOMAIN m1 THEN PlusValue(Title(prop)) ELSE Title(prop)
         IN  IF cls \notin ChannelClasses THEN Raise(UnrecognizedChannelError)
             ELSE IF rejects THEN Ok(MapV(m1))
             ELSE Ok(NodeV(cls, m1))

\* field['condition'] of a dict or a node; a string raises TypeError, a missing key KeyError
HasCondition(field) ==
    \/ IsMapping(field) /\ "condition" \in DOMAIN field.m
    \/ IsNode(field) /\ "condition" \in DOMAIN field.kwds
ConditionOf(field) == IF IsMapping(field) THEN field.m["condition"] ELSE field.kwds["condition"]
WithCondition(field, c) ==
    IF IsMapping(field) THEN MapV(DictUpdate(field.m, Key("condition", c)))
    ELSE NodeV(field.cls, DictUpdate(field.kwds, Key("condition", c)))

\* one pass of the loop of lines 509-517 over (prop, field)
ResolveChannel(field, prop, rejects) ==
    IF HasCondition(field) /\ ConditionOf(field) # Undefined
    THEN LET c == WrapInChannelClass(ConditionOf(field), prop, rejects)
         IN  IF ~c.ok THEN c
             ELSE WrapInChannelClass(WithCondition(field, c.val), prop, rejects)
    ELSE WrapInChannelClass(field, prop, rejects)

----------------------------------------------------------------------------
(* Chart objects.  An object is its class and its keywords (SchemaBase._kwds); *)
(* a keyword that is absent is Undefined.  A child chart is held by reference.  *)

RefV(id) == [tag |-> "ref", id |-> id]           \* a chart object of the heap
SelMapV(m) == [tag |-> "selmap", sm |-> m]       \* a SelectionMapping held by a chart

Obj(cls, kwds) == [cls |-> cls, kwds |-> kwds]
Get(obj, k) == IF k \in DOMAIN obj.kwds THEN obj.kwds[k] ELSE Undefined
SetAttr(obj, k, v) == [obj EXCEPT !.kwds = DictUpdate(@, Key(k, v))]

\* the keyword that holds a variant's children
ChildKey(cls) ==
    CASE cls = "LayerChart" -> "layer"
      [] cls = "HConcatChart" -> "hconcat"
      [] cls = "VConcatChart" -> "vconcat"
      [] cls = "RepeatChart" -> "spec"
      [] OTHER -> "none"

\* SchemaBase.copy(deep=True): nested nodes and lists are copied, so every child
\* chart becomes a new object; dicts and nodes of the model hold no chart.  The
\* ignore=['data'] of properties/encode/interactive shares the data value, which
\* has no identity here.
RECURSIVE DeepCopy(_, _), DeepCopyValue(_, _), DeepCopyList(_, _)
DeepCopyValue(h, v) ==
    IF v.tag = "ref"
    THEN LET r == DeepCopy(h, v.id) IN [heap |-> r.heap, val |-> RefV(r.res)]
    ELSE IF v.tag = "list"
    THEN LET r == DeepCopyList(h, v.l) IN [heap |-> r.heap, val |-> ListV(r.l)]
    ELSE [heap |-> h, val |-> v]
DeepCopyList(h, l) ==
    IF l = <<>> THEN [heap |-> h, l |-> <<>>]
    ELSE LET first == DeepCopyValue(h, Head(l))
             rest == DeepCopyList(first.heap, Tail(l))
         IN  [heap |-> rest.heap, l |-> <<first.val>> \o rest.l]
DeepCopy(h, id) ==
    LET ck == ChildKey(h[id].cls)
    IN  IF ck \in DOMAIN h[id].kwds
        THEN LET r == DeepCopyValue(h, h[id].kwds[ck])
             IN  [heap |-> Append(r.heap, SetAttr(h[id], ck, r.val)), res |-> Len(r.heap) + 1]
        ELSE [heap |-> Append(h, h[id]), res |-> Len(h) + 1]

\* the objects a deep copy of h[id] allocates
RECURSIVE CopySize(_, _), CopySizeValue(_, _)
CopySizeValue(h, v) ==
    IF v.tag = "ref" THEN CopySize(h, v.id)
    ELSE IF v.tag = "list"
    THEN IF v.l = <<>> THEN 0
         ELSE CopySizeValue(h, Head(v.l)) + CopySizeValue(h, ListV(Tail(v.l)))
    ELSE 0
CopySize(h, id) ==
    1 + (IF ChildKey(h[id].cls) \in DOMAIN h[id].kwds
         THEN CopySizeValue(h, h[id].kwds[ChildKey(h[id].cls)]) ELSE 0)

\* a faulty copy: the receiver itself
NoCopy(h, id) == [heap |-> h, res |-> id]

\* the copy a mutation method works on (its first statement)
CopyOf(h, id) == DeepCopy(h, id)

----------------------------------------------------------------------------
(* The mutation methods of TopLevelMixin and Chart: each returns            *)
(* [ok, heap, res], res the chart returned, or [ok, heap, exc]              *)

Done(heap, res) == [ok |-> TRUE, heap |-> heap, res |-> res]
Fail(heap, exc) == [ok |-> FALSE, heap |-> heap, exc |-> exc]

\* TopLevelMixin.properties(**kwargs)
Properties(h, id, kwargs) ==
    LET c == CopyOf(h, id)
    IN  Done([c.heap EXCEPT ![c.res].kwds = DictUpdate(@, kwargs)], c.res)

\* a faulty _add_transform: the new nodes go in front
AddTransformFront(h, id, transforms) ==
    LET c == CopyOf(h, id)
        t == Get(c.heap[c.res], "transform")
        new == IF t = Undefined THEN ListV(transforms) ELSE ListV(transforms \o t.l)
    IN  Done([c.heap EXCEPT ![c.res] = SetAttr(@, "transform", new)], c.res)

\* TopLevelMixin._add_transform(*transforms)
AddTransform(h, id, transforms) ==
    LET c == CopyOf(h, id)
        t == Get(c.heap[c.res], "transform")
        new == IF t = Undefined THEN ListV(transforms) ELSE ListV(t.l \o transforms)
    IN  Done([c.heap EXCEPT ![c.res] = SetAttr(@, "transform", new)], c.res)

\* the node a transform_* method hands to _add_transform: transform_calculate and
\* transform_filter put their named parameters into the keywords, the others
\* pass their keywords on
TransformNode(method, pos, kwargs) ==
    CASE method = "aggregate" -> NodeV("AggregateTransform", kwargs)
      [] method = "bin" -> NodeV("BinTransform", kwargs)
      [] method = "calculate" ->
            NodeV("CalculateTransform",
                  DictUpdate(DictUpdate(kwargs, Key("as", pos.as_)),
                             Key("calculate", pos.calculate)))
      [] method = "filter" -> NodeV("FilterTransform", DictUpdate(kwargs, Key("filter", pos.filter)))
      [] method = "lookup" -> NodeV("LookupTransform", kwargs)
      [] method = "timeunit" -> NodeV("TimeUnitTransform", kwargs)

\* TopLevelMixin._set_resolve(**kwargs)
SetResolve(h, id, kwargs) ==
    LET c == CopyOf(h, id)
        r == Get(c.heap[c.res], "resolve")
        r0 == IF r = Undefined THEN NodeV("Resolve", NoKwds) ELSE r
    IN  Done([c.heap EXCEPT ![c.res] =
                 SetAttr(@, "resolve", NodeV(r0.cls, DictUpdate(r0.kwds, kwargs)))], c.res)

\* Chart.encode, lines 467-477: positional channel nodes become keywords
NonKeywordArgError == [cls |-> "NotImplementedError", msg |-> "non-keyword arg of type"]
SpecifiedTwiceError == [cls |-> "ValueError", msg |-> "encode: encoding specified twice"]
RECURSIVE ArgsToKwargs(_, _)
ArgsToKwargs(args, kwargs) ==
    IF args = <<>> THEN Ok(kwargs)
    ELSE LET arg == Head(args)
         IN  IF ~(IsNode(arg) /\ arg.cls \in ChannelClasses) THEN Raise(NonKeywordArgError)
             ELSE IF ChannelOfClass(arg.cls) \in DOMAIN kwargs THEN Raise(SpecifiedTwiceError)
             ELSE ArgsToKwargs(Tail(args), DictUpdate(kwargs, Key(ChannelOfClass(arg.cls), arg)))

\* Chart.encode, lines 509-517: every keyword resolved
ResolveAll(kwargs, rejects) ==
    LET r == [prop \in DOMAIN kwargs |-> ResolveChannel(kwargs[prop], prop, rejects)]
    IN  IF \E prop \in DOMAIN r : ~r[prop].ok
        THEN r[CHOOSE prop \in DOMAIN r : ~r[prop].ok]
        ELSE Ok([prop \in DOMAIN r |-> r[prop].val])

\* Chart.encode(*args, **kwargs)
Encode(h, id, args, kwargs, rejects) ==
    LET kw == ArgsToKwargs(args, kwargs)
    IN  IF ~kw.ok THEN Fail(h, kw.exc)
        ELSE LET rs == ResolveAll(kw.val, rejects)
             IN  IF ~rs.ok THEN Fail(h, rs.exc)
                 ELSE LET c == CopyOf(h, id)
                          e == Get(c.heap[c.res], "encoding")
                          e0 == IF e = Undefined THEN NoKwds
                                ELSE IF IsMapping(e) THEN e.m
                                ELSE [k \in {x \in DOMAIN e.kwds : e.kwds[x] # Undefined}
                                        |-> e.kwds[k]]
                      IN  Done([c.heap EXCEPT ![c.res] =
                                   SetAttr(@, "encoding",
                                           NodeV("EncodingWithFacet", DictUpdate(e0, rs.val)))],
                               c.res)

\* the encodings list of Chart.interactive
Encodings(bind_x, bind_y) ==
    (IF bind_x THEN <<"x">> ELSE <<>>) \o (IF bind_y THEN <<"y">> ELSE <<>>)

\* Chart.interactive(name, bind_x, bind_y): the name argument is never read, the
\* selection is always named from the counter
Interactive(h, cnt, id, hasName, name, bind_x, bind_y) ==
    LET c == CopyOf(h, id)
        s == Get(c.heap[c.res], "selection")
        s0 == IF s = Undefined THEN NoKwds     \* SelectionMapping()
              ELSE s.sm                          \* the mapping, or SelectionMapping(**dict)
        new == Selection(cnt, FALSE, name,
                         [type |-> "interval", bind |-> "scales",
                          encodings |-> Encodings(bind_x, bind_y)])
    IN  [ok |-> TRUE,
         heap |-> [c.heap EXCEPT ![c.res] =
                      SetAttr(@, "selection", SelMapV(DictUpdate(s0, new.mapping)))],
         res |-> c.res, counter |-> new.counter, name |-> new.name, auto |-> new.auto]

----------------------------------------------------------------------------
(* Sub-spec validation, the composed variants and the composition operators *)

TopLevelOnly == <<"autosize", "background", "config", "padding">>

SubspecConstraintError(attr, classname) ==
    [cls |-> "ValueError", msg |-> "Objects with attr cannot be used within classname",
     attr |-> attr, classname |-> classname]

\* spec.get / getattr(spec, ...) on something that is neither a node nor a dict
NoGetError == [cls |-> "AttributeError", msg |-> "object has no attribute 'get'"]

\* getattr(spec, attr, Undefined) for a chart object, spec.get(attr, Undefined) for a dict
SubspecAttr(h, spec, attr) ==
    IF spec.tag = "ref" THEN Get(h[spec.id], attr)
    ELSE IF attr \in DOMAIN spec.m THEN spec.m[attr] ELSE Undefined

\* a faulty _check_if_valid_subspec: padding is not looked at
CheckFirstThree(h, spec, classname) ==
    IF spec.tag \notin {"ref", "map"} THEN Raise(NoGetError)
    ELSE LET bad == {i \in 1..3 : SubspecAttr(h, spec, TopLevelOnly[i]) # Undefined}
         IN  IF bad = {} THEN Ok(spec)
             ELSE Raise(SubspecConstraintError(
                      TopLevelOnly[CHOOSE i \in bad : \A j \in bad : i <= j], classname))

\* _check_if_valid_subspec(spec, classname)
CheckIfValidSubspec(h, spec, classname) ==
    IF spec.tag \notin {"ref", "map"} THEN Raise(NoGetError)
    ELSE LET bad == {i \in 1..Len(TopLevelOnly) :
                        SubspecAttr(h, spec, TopLevelOnly[i]) # Undefined}
         IN  IF bad = {} THEN Ok(spec)
             ELSE Raise(SubspecConstraintError(
                      TopLevelOnly[CHOOSE i \in bad : \A j \in bad : i <= j], classname))

\* the loop "for spec in layer: _check_if_valid_subspec(spec, cls)": the first failure
RECURSIVE CheckAll(_, _, _)
CheckAll(h, specs, classname) ==
    IF specs = <<>> THEN Ok(specs)
    ELSE LET r == CheckIfValidSubspec(h, Head(specs), classname)
         IN  IF ~r.ok THEN r ELSE CheckAll(h, Tail(specs), classname)

\* Chart(**kwds)
NewChartObj(h, kwds) == Done(Append(h, Obj("Chart", kwds)), Len(h) + 1)

\* LayerChart(layer, **kwargs), HConcatChart(hconcat, ...), VConcatChart(vconcat, ...)
Compose(h, cls, specs, kwargs) ==
    LET r == CheckAll(h, specs, cls)
    IN  IF ~r.ok THEN Fail(h, r.exc)
        ELSE Done(Append(h, Obj(cls, DictUpdate(kwargs, Key(ChildKey(cls), ListV(specs))))),
                  Len(h) + 1)

\* RepeatChart(spec, repeat=..., **kwargs)
NewRepeatChart(h, spec, kwargs) ==
    LET r == CheckIfValidSubspec(h, spec, "RepeatChart")
    IN  IF ~r.ok THEN Fail(h, r.exc)
        ELSE Done(Append(h, Obj("RepeatChart", DictUpdate(kwargs, Key("spec", spec)))),
                  Len(h) + 1)

\* the variant a composition operator builds and accumulates into
VariantOf(op) ==
    CASE op = "+" -> "LayerChart"
      [] op = "|" -> "HConcatChart"
      [] op = "&" -> "VConcatChart"

\* LayerChart.__iadd__, HConcatChart.__ior__, VConcatChart.__iand__
AppendInPlace(h, id, other) ==
    LET cls == h[id].cls
        r == CheckIfValidSubspec(h, other, cls)
    IN  IF ~r.ok THEN Fail(h, r.exc)
        ELSE Done([h EXCEPT ![id] =
                      SetAttr(@, ChildKey(cls), ListV(Get(@, ChildKey(cls)).l \o <<other>>))],
                  id)

\* a faulty copy-returning operator: the copy shares the receiver's list, so the
\* operand lands in both
AppendShared(h, id, other) ==
    LET cls == h[id].cls
        r == CheckIfValidSubspec(h, other, cls)
        l == ListV(Get(h[id], ChildKey(cls)).l \o <<other>>)
    IN  IF ~r.ok THEN Fail(h, r.exc)
        ELSE Done(Append([h EXCEPT ![id] = SetAttr(@, ChildKey(cls), l)],
                         SetAttr(h[id], ChildKey(cls), l)),
                  Len(h) + 1)

\* LayerChart.__add__, HConcatChart.__or__, VConcatChart.__and__
AppendToCopy(h, id, other) ==
    LET cls == h[id].cls
        r == CheckIfValidSubspec(h, other, cls)
    IN  IF ~r.ok THEN Fail(h, r.exc)
        ELSE LET c == CopyOf(h, id)
             IN  Done([c.heap EXCEPT ![c.res] =
                          SetAttr(@, ChildKey(cls), ListV(Get(@, ChildKey(cls)).l \o <<other>>))],
                      c.res)

\* h[id] op other and h[id] op= other, as Python dispatches them: the variant's own
\* operator when h[id] is that variant, else TopLevelMixin.__add__/__or__/__and__
\* (no in-place method: op= falls back to op and rebinds the name)
BinOp(h, op, id, other, inplace) ==
    IF h[id].cls = VariantOf(op)
    THEN IF inplace THEN AppendInPlace(h, id, other) ELSE AppendToCopy(h, id, other)
    ELSE Compose(h, VariantOf(op), <<RefV(id), other>>, NoKwds)

----------------------------------------------------------------------------
(* The condition builder and the logical operators, applied to selection   *)
(* mappings a session has built                                            *)

\* mappings of no, one and two names, as SelectionMapping(**kwds) builds them
CondMappings ==
    DirectMappings \cup
    { SelectionMapping1(Brush, SelectionDef([type |-> "interval"])),
      SelectionMapping1(Zoom, SelectionDef([type |-> "single"])) }

NumV(n) == [tag |-> "num", n |-> n]              \* a number

\* predicates that are no SelectionMapping: predicate nodes, a test string, a raw
\* dict, and two values of types condition does not handle
CondPredicateValues ==
    { NodeV("SelectionNot", Key("not", NameV(Brush))),
      NodeV("LogicalNotPredicate", Key("not", Leaf("datum.x > 1"))),
      Leaf("datum.x > 1"),
      MapV(Key("selection", NameV(Zoom))),
      NumV(5),
      NodeV("MarkDef", Key("type", Leaf("point"))) }

HandledPredicate(v) ==
    \/ IsString(v)
    \/ IsMapping(v)
    \/ IsNode(v) /\ v.cls \in SelectionPredicateClasses \cup TestPredicateClasses

CondIfTrue ==
    { MapV(Key("field", Leaf("a"))),
      MapV(DictUpdate(Key("field", Leaf("a")), Key("type", Leaf("nominal")))),
      MapV(Key("value", Leaf("red"))),
      MapV(DictUpdate(Key("value", Leaf("red")), Key("selection", NameV(Zoom)))),
      Leaf("a"),
      NodeV("ColorValue", DictUpdate(Key("value", Leaf("red")), Key("condition", Undefined))) }

CondIfFalse ==
    { MapV(Key("value", Leaf("grey"))),
      MapV(DictUpdate(Key("field", Leaf("b")), Key("type", Leaf("ordinal")))),
      MapV(DictUpdate(Key("value", Leaf("grey")), Key("condition", MapV(Key("test", Leaf("t")))))),
      Leaf("b"),
      NodeV("ColorValue", Key("value", Leaf("grey"))) }

CondKwargs == {NoKwds, Key("type", Leaf("quantitative"))}

\* condition(sels[a], if_true, if_false, **kwargs)
CallConditionSel(a, if_true, if_false, kwargs) ==
    /\ last' = [op |-> "condition", selmap |-> TRUE, a |-> a,
                if_true |-> if_true, if_false |-> if_false, kwargs |-> kwargs,
                res |-> Condition([kind |-> "selmap", m |-> sels[a]], if_true, if_false, kwargs)]
    /\ UNCHANGED <<charts, sels, counter, created>>

\* condition(v, if_true, if_false, **kwargs) for a predicate v that is no SelectionMapping
CallConditionValue(v, if_true, if_false, kwargs) ==
    /\ last' = [op |-> "condition", selmap |-> FALSE, pred |-> v,
                if_true |-> if_true, if_false |-> if_false, kwargs |-> kwargs,
                res |-> Condition([kind |-> "value", v |-> v], if_true, if_false, kwargs)]
    /\ UNCHANGED <<charts, sels, counter, created>>

\* ~sels[a]
InvertSel(a) ==
    /\ last' = [op |-> "sel_invert", a |-> a, res |-> SelInvert(sels[a])]
    /\ UNCHANGED <<charts, sels, counter, created>>

\* sels[a] & sels[b], sels[a] | sels[b]
AndSel(a, b) ==
    /\ last' = [op |-> "sel_and", a |-> a, b |-> b, raw |-> FALSE,
                res |-> SelAnd(sels[a], sels[b], TRUE)]
    /\ UNCHANGED <<charts, sels, counter, created>>

OrSel(a, b) ==
    /\ last' = [op |-> "sel_or", a |-> a, b |-> b, raw |-> FALSE,
                res |-> SelOr(sels[a], sels[b], TRUE)]
    /\ UNCHANGED <<charts, sels, counter, created>>

\* sels[a] & "name", sels[a] | "name"
AndRaw(a, name) ==
    /\ last' = [op |-> "sel_and", a |-> a, b |-> name, raw |-> TRUE,
                res |-> SelAnd(sels[a], name, FALSE)]
    /\ UNCHANGED <<charts, sels, counter, created>>

OrRaw(a, name) ==
    /\ last' = [op |-> "sel_or", a |-> a, b |-> name, raw |-> TRUE,
                res |-> SelOr(sels[a], name, FALSE)]
    /\ UNCHANGED <<charts, sels, counter, created>>

InitCond ==
    /\ charts = <<>>
    /\ \E m1 \in CondMappings, m2 \in CondMappings : sels = <<m1, m2>>
    /\ created = <<>>
    /\ counter = 1
    /\ last = [op |-> "init"]

NextCond ==
    \/ \E a \in SelIds, t \in CondIfTrue, f \in CondIfFalse, kw \in CondKwargs :
          CallConditionSel(a, t, f, kw)
    \/ \E v \in CondPredicateValues, t \in CondIfTrue, f \in CondIfFalse, kw \in CondKwargs :
          CallConditionValue(v, t, f, kw)
    \/ \E a \in SelIds, inplace \in BOOLEAN : AddOther(a, inplace)
    \/ \E a \in SelIds : InvertSel(a)
    \/ \E a \in SelIds, b \in SelIds : AndSel(a, b)
    \/ \E a \in SelIds, b \in SelIds : OrSel(a, b)
    \/ \E a \in SelIds, name \in ExplicitNames : AndRaw(a, name)
    \/ \E a \in SelIds, name \in ExplicitNames : OrRaw(a, name)

SpecCond == InitCond /\ [][NextCond]_vars

----------------------------------------------------------------------------
(* Actions on charts.  last keeps the receiver as it was before the call.  *)

ChartIds == 1..Len(charts)
Room(n) == Len(charts) + n <= MaxCharts

\* what a heap operation r leaves in last, for a call op on receiver c
Outcome(op, c, r) ==
    IF r.ok THEN [op |-> op, recv |-> c, before |-> charts[c], n |-> Len(charts),
                  ok |-> TRUE, res |-> r.res]
    ELSE [op |-> op, recv |-> c, before |-> charts[c], n |-> Len(charts),
          ok |-> FALSE, exc |-> r.exc]

\* Chart(**kwds)
NewChart(kwds) ==
    /\ Room(1)
    /\ \E r \in {NewChartObj(charts, kwds)} :
           /\ charts' = r.heap
           /\ last' = [op |-> "Chart", n |-> Len(charts), ok |-> TRUE, res |-> r.res]
    /\ UNCHANGED <<sels, counter, created>>

\* charts[c].properties(**kwargs)
CallProperties(c, kwargs) ==
    /\ Room(CopySize(charts, c))
    /\ \E r \in {Properties(charts, c, kwargs)} :
           /\ charts' = r.heap
           /\ last' = [Outcome("properties", c, r) EXCEPT !.op = "properties"]
    /\ UNCHANGED <<sels, counter, created>>

\* charts[c].transform_filter(...), transform_calculate(...), ...: one node added
CallTransform(c, t) ==
    /\ Room(CopySize(charts, c))
    /\ \E r \in {AddTransform(charts, c, <<t>>)} :
           /\ charts' = r.heap
           /\ last' = [op |-> "transform", recv |-> c, before |-> charts[c],
                       n |-> Len(charts), ok |-> TRUE, res |-> r.res, added |-> t]
    /\ UNCHANGED <<sels, counter, created>>

\* charts[c].resolve_axis(...), resolve_legend(...), resolve_scale(...)
CallResolve(c, kwargs) ==
    /\ Room(CopySize(charts, c))
    /\ \E r \in {SetResolve(charts, c, kwargs)} :
           /\ charts' = r.heap
           /\ last' = Outcome("resolve", c, r)
    /\ UNCHANGED <<sels, counter, created>>

\* charts[c].encode(*args, **kwargs), c a Chart
CallEncode(c, args, kwargs, rejects) ==
    /\ charts[c].cls = "Chart"
    /\ Room(1)
    /\ \E r \in {Encode(charts, c, args, kwargs, rejects)} :
           /\ charts' = r.heap
           /\ last' = IF r.ok
                      THEN [op |-> "encode", recv |-> c, before |-> charts[c],
                            n |-> Len(charts), ok |-> TRUE, res |-> r.res,
                            args |-> args, kwargs |-> kwargs]
                      ELSE [op |-> "encode", recv |-> c, before |-> charts[c],
                            n |-> Len(charts), ok |-> FALSE, exc |-> r.exc,
                            args |-> args, kwargs |-> kwargs]
    /\ UNCHANGED <<sels, counter, created>>

\* charts[c].interactive(name, bind_x, bind_y), c a Chart
CallInteractive(c, hasName, name, bind_x, bind_y) ==
    /\ charts[c].cls = "Chart"
    /\ Room(1)
    /\ counter < MaxCounter
    /\ Len(created) < MaxCreated
    /\ \E r \in {Interactive(charts, counter, c, hasName, name, bind_x, bind_y)} :
           /\ charts' = r.heap
           /\ counter' = r.counter
           /\ created' = Append(created, [name |-> r.name, auto |-> r.auto,
                                          via |-> "interactive"])
           /\ last' = [op |-> "interactive", recv |-> c, before |-> charts[c],
                       n |-> Len(charts), ok |-> TRUE, res |-> r.res,
                       hasName |-> hasName, name |-> name,
                       bind_x |-> bind_x, bind_y |-> bind_y, cnt |-> counter,
                       auto |-> r.auto]
    /\ UNCHANGED sels

\* what _check_if_valid_subspec reads of a candidate child: its attributes
Candidate(h, spec) ==
    IF spec.tag = "ref" THEN h[spec.id].kwds
    ELSE IF spec.tag = "map" THEN spec.m
    ELSE NoKwds

\* LayerChart(specs), HConcatChart(specs), VConcatChart(specs)
CallComposeOf(cls, specs) ==
    /\ Room(1)
    /\ \E r \in {Compose(charts, cls, specs, NoKwds)} :
           /\ charts' = r.heap
           /\ last' = IF r.ok
                      THEN [op |-> "compose", variant |-> cls, n |-> Len(charts),
                            cands |-> [i \in DOMAIN specs |-> Candidate(charts, specs[i])],
                            ok |-> TRUE, res |-> r.res]
                      ELSE [op |-> "compose", variant |-> cls, n |-> Len(charts),
                            cands |-> [i \in DOMAIN specs |-> Candidate(charts, specs[i])],
                            ok |-> FALSE, exc |-> r.exc]
    /\ UNCHANGED <<sels, counter, created>>

----------------------------------------------------------------------------
(* Inputs of the chart actions *)

ChartInits == {NoKwds, Key("width", Leaf("200"))}

PropertiesArgsMut == {Key("width", Leaf("500"))}

Transforms ==
    { NodeV("FilterTransform", Key("filter", Leaf("datum.x > 1"))),
      NodeV("CalculateTransform", DictUpdate(Key("as", Leaf("z")), Key("calculate", Leaf("2 * datum.x")))) }

ResolveArgs ==
    { Key("axis", NodeV("AxisResolveMap", Key("x", Leaf("independent")))),
      Key("scale", NodeV("ScaleResolveMap", Key("y", Leaf("shared")))) }

EncodeKwargs ==
    { Key("x", ShV("", "a", "Q")),
      Key("color", MapV(Key("value", Leaf("red")))) }

InitMut ==
    /\ charts = <<>>
    /\ sels = <<>>
    /\ counter = 1
    /\ created = <<>>
    /\ last = [op |-> "init"]

NextMut ==
    \/ \E kwds \in ChartInits : NewChart(kwds)
    \/ \E a \in ChartIds : CallComposeOf("LayerChart", <<RefV(a)>>)
    \/ \E c \in ChartIds, kwargs \in PropertiesArgsMut : CallProperties(c, kwargs)
    \/ \E c \in ChartIds, t \in Transforms : CallTransform(c, t)
    \/ \E c \in ChartIds, kwargs \in ResolveArgs : CallResolve(c, kwargs)
    \/ \E c \in ChartIds, kwargs \in EncodeKwargs : CallEncode(c, <<>>, kwargs, FALSE)
    \/ \E c \in ChartIds, hasName \in BOOLEAN : CallInteractive(c, hasName, Brush, TRUE, ~hasName)

SpecMut == InitMut /\ [][NextMut]_vars

\* channel values a caller passes to encode, by keyword
EncodeInputs ==
    { Key("x", ShV("", "a", "Q")),
      Key("x", ShV("mean", "a", "")),
      Key("x", MapV(DictUpdate(Key("field", ShV("", "a", "Q")), Key("type", Leaf("nominal"))))),
      Key("x", MapV(DictUpdate(Key("field", PlainStr("a")), Key("type", Leaf("nominal"))))),
      Key("x", MapV(DictUpdate(Key("field", ShV("mean", "a", "")), Key("aggregate", Leaf("sum"))))),
      Key("color", MapV(Key("value", Leaf("red")))),
      Key("color", MapV(DictUpdate(Key("value", Leaf("grey")),
                  Key("condition", MapV(DictUpdate(Key("selection", NameV(Brush)),
                                                   Key("field", ShV("", "b", "O")))))))),
      Key("color", NodeV("Color", Key("field", PlainStr("c")))),
      Key("foo", PlainStr("a")) }

\* channel nodes a caller passes to encode by position, and a node that is no channel
EncodeArgs ==
    { <<>>,
      <<NodeV("X", Key("field", PlainStr("b")))>>,
      <<NodeV("MarkDef", Key("type", Leaf("point")))>> }

NextEncode ==
    \/ NewChart(NoKwds)
    \/ \E c \in ChartIds, kwargs \in EncodeInputs : CallEncode(c, <<>>, kwargs, FALSE)
    \/ \E c \in ChartIds, args \in EncodeArgs \ {<<>>}, kwargs \in EncodeKwargs :
          CallEncode(c, args, kwargs, FALSE)
    \/ \E c \in ChartIds, kwargs \in EncodeKwargs : CallEncode(c, <<>>, kwargs, TRUE)

SpecEncode == InitMut /\ [][NextEncode]_vars

\* RepeatChart(spec=spec)
CallRepeat(spec) ==
    /\ Room(1)
    /\ \E r \in {NewRepeatChart(charts, spec, NoKwds)} :
           /\ charts' = r.heap
           /\ last' = IF r.ok
                      THEN [op |-> "compose", variant |-> "RepeatChart", n |-> Len(charts),
                            cands |-> <<Candidate(charts, spec)>>, ok |-> TRUE, res |-> r.res]
                      ELSE [op |-> "compose", variant |-> "RepeatChart", n |-> Len(charts),
                            cands |-> <<Candidate(charts, spec)>>, ok |-> FALSE, exc |-> r.exc]
    /\ UNCHANGED <<sels, counter, created>>

Operators == {"+", "|", "&"}
Variants == {VariantOf(op) : op \in Operators}

\* the children of a variant object
ChildrenOf(obj) ==
    IF obj.cls = "RepeatChart" THEN <<obj.kwds["spec"]>>
    ELSE IF obj.cls \in Variants THEN obj.kwds[ChildKey(obj.cls)].l
    ELSE <<>>

\* charts[a] op other (the name keeps its object) and charts[a] op= other
CallBinOp(op, a, other, inplace) ==
    \E r \in {BinOp(charts, op, a, other, inplace)} :
    LET own == charts[a].cls = VariantOf(op)
        cands == IF own THEN <<Candidate(charts, other)>>
                 ELSE <<charts[a].kwds, Candidate(charts, other)>>
    IN  /\ charts' = r.heap
        /\ last' = IF r.ok
                   THEN [op |-> "binop", sym |-> op, inplace |-> inplace, own |-> own,
                         variant |-> VariantOf(op), recv |-> a, before |-> charts[a],
                         other |-> other, n |-> Len(charts), cands |-> cands,
                         ok |-> TRUE, res |-> r.res]
                   ELSE [op |-> "binop", sym |-> op, inplace |-> inplace, own |-> own,
                         variant |-> VariantOf(op), recv |-> a, before |-> charts[a],
                         other |-> other, n |-> Len(charts), cands |-> cands,
                         ok |-> FALSE, exc |-> r.exc]
        /\ UNCHANGED <<sels, counter, created>>

\* charts as a caller builds them before composing: plain, and with padding only
ComposeInits == {NoKwds, Key("padding", Leaf("5"))}

\* a sub-spec given as a plain dict, with a config and a background
DictSpecs == { MapV(DictUpdate(Key("config", MapV(NoKwds)), Key("background", Leaf("white")))) }

\* a plain chart or a dict: the operands of the in-place operators, which NextCompose
\* applies to the variant that defines them (on any other chart, op= is op)
PlainOperands == {RefV(b) : b \in {i \in ChartIds : charts[i].cls = "Chart"}} \cup DictSpecs

NextCompose ==
    \/ \E kwds \in ComposeInits : Len(charts) < MaxComposed /\ NewChart(kwds)
    \/ \E cls \in Variants, a \in ChartIds :
          Len(charts) < MaxComposed /\ CallComposeOf(cls, <<RefV(a)>>)
    \/ \E a \in ChartIds, d \in DictSpecs :
          Len(charts) < MaxComposed /\ CallComposeOf("HConcatChart", <<RefV(a), d>>)
    \/ \E spec \in {RefV(a) : a \in ChartIds} \cup DictSpecs \cup {Undefined} :
          Len(charts) < MaxComposed /\ CallRepeat(spec)
    \/ \E op \in Operators, a \in ChartIds, b \in ChartIds :
          /\ Len(ChildrenOf(charts[a])) < MaxChildren
          /\ CallBinOp(op, a, RefV(b), FALSE)
          /\ Len(charts') <= MaxComposed
    \/ \E op \in Operators, a \in ChartIds, other \in PlainOperands :
          /\ charts[a].cls = VariantOf(op)
          /\ Len(ChildrenOf(charts[a])) < MaxChildren
          /\ CallBinOp(op, a, other, TRUE)
    \/ \E c \in ChartIds :
          Len(charts) + CopySize(charts, c) <= MaxComposed
             /\ CallProperties(c, Key("padding", Leaf("9")))

SpecCompose == InitMut /\ [][NextCompose]_vars

\* calls of the six transform_* methods
TransformCalls ==
    { [method |-> "aggregate", pos |-> NoKwds,
       kwargs |-> DictUpdate(Key("aggregate", Leaf("mean(a)")), Key("groupby", Leaf("b")))],
      [method |-> "bin", pos |-> NoKwds,
       kwargs |-> DictUpdate(Key("bin", Leaf("true")), Key("field", Leaf("a")))],
      [method |-> "calculate", pos |-> [as_ |-> Leaf("z"), calculate |-> Leaf("2 * datum.x")],
       kwargs |-> NoKwds],
      [method |-> "filter", pos |-> [filter |-> Leaf("datum.x > 1")], kwargs |-> NoKwds],
      [method |-> "lookup", pos |-> NoKwds,
       kwargs |-> DictUpdate(Key("lookup", Leaf("key")), Key("from", Leaf("other")))],
      [method |-> "timeunit", pos |-> NoKwds,
       kwargs |-> DictUpdate(Key("timeUnit", Leaf("year")), Key("field", Leaf("date")))] }

\* charts built without transforms and with a transform list of one node
TransformInits ==
    { NoKwds,
      Key("transform", ListV(<<NodeV("FilterTransform", Key("filter", Leaf("datum.y < 3")))>>)) }

NextTransform ==
    \/ \E kwds \in TransformInits : Len(charts) = 0 /\ NewChart(kwds)
    \/ \E c \in ChartIds, call \in TransformCalls :
          CallTransform(c, TransformNode(call.method, call.pos, call.kwargs))

SpecTransform == InitMut /\ [][NextTransform]_vars

\* sessions that start with two different plain charts, chart1 and chart2, build
\* variants of them and apply every operator in both forms, as long as the charts
\* and the entries of their child lists together stay within MaxAccum; a variant
\* is built while a copy of it with one more child still fits
MaxAccum == 8

RECURSIVE Entries(_)
Entries(h) == IF h = <<>> THEN 0 ELSE Len(ChildrenOf(Head(h))) + Entries(Tail(h))

InitAccum ==
    /\ charts = <<Obj("Chart", NoKwds), Obj("Chart", Key("width", Leaf("200")))>>
    /\ sels = <<>>
    /\ counter = 1
    /\ created = <<>>
    /\ last = [op |-> "init"]

NextAccum ==
    \/ \E cls \in Variants, a \in ChartIds :
          /\ CallComposeOf(cls, <<RefV(a)>>)
          /\ Len(charts') + Entries(charts') + 4 <= MaxAccum
    \/ \E op \in Operators, a \in ChartIds, other \in PlainOperands :
          /\ charts[a].cls \in {"Chart", VariantOf(op)}
          /\ CallBinOp(op, a, other, FALSE)
          /\ Len(charts') + Entries(charts') <= MaxAccum
    \/ \E op \in Operators, a \in ChartIds, other \in PlainOperands :
          /\ charts[a].cls = VariantOf(op)
          /\ CallBinOp(op, a, other, TRUE)
          /\ Len(charts') + Entries(charts') <= MaxAccum

SpecAccum == InitAccum /\ [][NextAccum]_vars

----------------------------------------------------------------------------
(* TopLevelMixin.to_dict.  A document is a MapV; validate is "True", "False" *)
(* or "deep"; a context is a dict with the optional keys top_level and data. *)

SCHEMA_URL == Leaf("https://vega.github.io/schema/vega-lite/v2.json")

\* TopLevelMixin._default_spec_values
DefaultSpecValues ==
    MapV(Key("config", MapV(Key("view", MapV([width |-> Leaf("400"), height |-> Leaf("300")])))))

ValidationError == [cls |-> "ValidationError", msg |-> "document does not match the schema"]
ConversionError == [cls |-> "ValueError", msg |-> "conversion failed"]

\* update_nested(original, update, copy=True) on the contents of two dicts
RECURSIVE UpdateNested(_, _)
UpdateNested(original, update) ==
    [k \in DOMAIN original \cup DOMAIN update |->
        IF k \notin DOMAIN update THEN original[k]
        ELSE IF IsMapping(update[k])
        THEN LET orig_val == IF k \in DOMAIN original THEN original[k] ELSE MapV(NoKwds)
             IN  IF IsMapping(orig_val) THEN MapV(UpdateNested(orig_val.m, update[k].m))
                 ELSE update[k]
        ELSE update[k]]

\* a pandas DataFrame, by the name of its rows
DataFrame(rows) == [tag |-> "df", rows |-> rows]

\* pipe(data, data_transformers.get()): the rows as an inline data reference
Pipe(df) == MapV(Key("values", Leaf(df.rows)))

DataClasses == {"Data", "InlineData", "UrlData", "NamedData"}

\* TopLevelMixin._prepare_data on the object obj
PrepareData(obj) ==
    LET data == Get(obj, "data")
    IN  IF IsMapping(data) \/ (IsNode(data) /\ data.cls \in DataClasses) THEN obj
        ELSE IF data.tag = "df" THEN SetAttr(obj, "data", Pipe(data))
        ELSE IF IsString(data) THEN SetAttr(obj, "data", NodeV("UrlData", Key("url", data)))
        ELSE obj

\* line 212: _prepare_data on obj sends its data through the pipeline
RunsPipeline(obj) == Get(obj, "data").tag = "df"

\* a faulty flag: every call takes itself for the top-level one
AlwaysTopLevel(context) == TRUE

\* context.get('top_level', True)
IsTopLevel(context) ==
    IF "top_level" \in DOMAIN context THEN context["top_level"] ELSE TRUE

\* the schema check of a document: a unit chart names its mark, a composed chart
\* holds valid children
RECURSIVE ValidDoc(_)
ValidDoc(d) ==
    IF ~IsMapping(d) THEN FALSE
    ELSE IF \E k \in {"layer", "hconcat", "vconcat"} : k \in DOMAIN d.m
    THEN LET k == CHOOSE k \in {"layer", "hconcat", "vconcat"} : k \in DOMAIN d.m
         IN  /\ d.m[k].tag = "list"
             /\ \A i \in DOMAIN d.m[k].l : ValidDoc(d.m[k].l[i])
    ELSE IF "spec" \in DOMAIN d.m THEN ValidDoc(d.m["spec"])
    ELSE "mark" \in DOMAIN d.m

\* _todict of a value that holds no chart: nodes become dicts without their
\* Undefined keywords
RECURSIVE PlainToDict(_)
PlainToDict(v) ==
    IF v.tag = "node"
    THEN MapV([k \in {x \in DOMAIN v.kwds : v.kwds[x] # Undefined} |-> PlainToDict(v.kwds[k])])
    ELSE IF v.tag = "map" THEN MapV([k \in DOMAIN v.m |-> PlainToDict(v.m[k])])
    ELSE IF v.tag = "list" THEN ListV([i \in DOMAIN v.l |-> PlainToDict(v.l[i])])
    ELSE v

\* a faulty retry: after any exception of the first run
RetryOnAnyError(run) == ~run.ok

\* lines 238-244: the first run is given up for a second one
NeedsRetry(run) == ~run.ok /\ run.exc.cls = "ValidationError"

\* a faulty finalization: the defaults are merged over the document
FinalizeOverriding(dct, is_top_level) ==
    IF is_top_level
    THEN LET d1 == IF "$schema" \in DOMAIN dct.m THEN dct.m
                   ELSE DictUpdate(dct.m, Key("$schema", SCHEMA_URL))
         IN  MapV(UpdateNested(d1, DefaultSpecValues.m))
    ELSE dct

\* lines 248-255: the document a call returns
Finalize(dct, is_top_level) ==
    IF is_top_level
    THEN LET d1 == IF "$schema" \in DOMAIN dct.m THEN dct.m
                   ELSE DictUpdate(dct.m, Key("$schema", SCHEMA_URL))
         IN  MapV(UpdateNested(DefaultSpecValues.m, d1))
    ELSE dct

\* what one run of the conversion leaves in the log of its call
RunEntry(mode, run) == [mode |-> mode, outcome |-> IF run.ok THEN "ok" ELSE run.exc.cls]

\* ToDict is TopLevelMixin.to_dict(validate=validate, context=context) of h[id];
\* SuperToDict is SchemaBase.to_dict of the prepared copy obj; ChildrenToDict converts
\* a list of children in order.  Each returns [ok, val | exc, log], log the
\* TopLevelMixin.to_dict calls completed, in order of completion.  fault: the
\* conversion of the receiver raises an exception that is no ValidationError.
\* piped, in an entry of the log: the call's _prepare_data ran the pipeline.
RECURSIVE ToDict(_, _, _, _, _), SuperToDict(_, _, _, _, _), ChildrenToDict(_, _, _, _)
ChildrenToDict(h, l, validate, context) ==
    IF l = <<>> THEN [ok |-> TRUE, val |-> <<>>, log |-> <<>>]
    ELSE LET first == IF Head(l).tag = "ref" THEN ToDict(h, Head(l).id, validate, context, FALSE)
                      ELSE [ok |-> TRUE, val |-> PlainToDict(Head(l)), log |-> <<>>]
         IN  IF ~first.ok THEN [ok |-> FALSE, exc |-> first.exc, log |-> first.log]
             ELSE LET rest == ChildrenToDict(h, Tail(l), validate, context)
                  IN  IF ~rest.ok
                      THEN [ok |-> FALSE, exc |-> rest.exc, log |-> first.log \o rest.log]
                      ELSE [ok |-> TRUE, val |-> <<first.val>> \o rest.val,
                            log |-> first.log \o rest.log]

SuperToDict(h, obj, validate, context, fault) ==
    IF fault THEN [ok |-> FALSE, exc |-> ConversionError, log |-> <<>>]
    ELSE LET sub_validate == IF validate = "deep" THEN "deep" ELSE "False"
             ck == ChildKey(obj.cls)
             hasKids == ck \in DOMAIN obj.kwds /\ obj.kwds[ck] # Undefined
             isList == hasKids /\ obj.kwds[ck].tag = "list"
             plain == [k \in {x \in DOMAIN obj.kwds : x # ck /\ obj.kwds[x] # Undefined}
                         |-> PlainToDict(obj.kwds[k])]
             kids == IF ~hasKids THEN [ok |-> TRUE, val |-> <<>>, log |-> <<>>]
                     ELSE IF isList THEN ChildrenToDict(h, obj.kwds[ck].l, sub_validate, context)
                     ELSE ChildrenToDict(h, <<obj.kwds[ck]>>, sub_validate, context)
         IN  IF ~kids.ok THEN [ok |-> FALSE, exc |-> kids.exc, log |-> kids.log]
             ELSE LET dct == MapV(IF ~hasKids THEN plain
                                  ELSE IF isList THEN DictUpdate(plain, Key(ck, ListV(kids.val)))
                                  ELSE DictUpdate(plain, Key(ck, kids.val[1])))
                  IN  IF validate # "False" /\ ~ValidDoc(dct)
                      THEN [ok |-> FALSE, exc |-> ValidationError, log |-> kids.log]
                      ELSE [ok |-> TRUE, val |-> dct, log |-> kids.log]

ToDict(h, id, validate, context, fault) ==
    LET c == CopyOf(h, id)
        original_data == Get(c.heap[c.res], "data")
        heap == [c.heap EXCEPT ![c.res] = PrepareData(@)]
        is_top_level == IsTopLevel(context)
        context1 == DictUpdate(context, Key("top_level", FALSE))
        context2 == IF original_data # Undefined
                    THEN DictUpdate(context1, Key("data", original_data)) ELSE context1
        run1 == SuperToDict(heap, heap[c.res], validate, context2, fault)
        retry == NeedsRetry(run1)
        run2 == SuperToDict(heap, heap[c.res], "deep", context2, fault)
        final == IF retry THEN run2 ELSE run1
        runs == IF retry THEN <<RunEntry(validate, run1), RunEntry("deep", run2)>>
                ELSE <<RunEntry(validate, run1)>>
        log == IF retry THEN run1.log \o run2.log ELSE run1.log
    IN  IF ~final.ok
        THEN [ok |-> FALSE, exc |-> final.exc, heap |-> heap,
              log |-> log \o <<[of |-> id, context |-> context, validate |-> validate,
                                piped |-> RunsPipeline(c.heap[c.res]),
                                runs |-> runs, ok |-> FALSE, exc |-> final.exc]>>]
        ELSE LET dct == Finalize(final.val, is_top_level)
             IN  [ok |-> TRUE, val |-> dct, heap |-> heap,
                  log |-> log \o <<[of |-> id, context |-> context, validate |-> validate,
                                    piped |-> RunsPipeline(c.heap[c.res]),
                                    runs |-> runs, ok |-> TRUE,
                                    converted |-> final.val, returned |-> dct]>>]

\* charts[c].to_dict(validate=validate, context=context); the copy it worked on is
\* dropped when the call returns
CallToDict(c, validate, context, fault) ==
    /\ \E r \in {ToDict(charts, c, validate, context, fault)} :
           /\ charts' = SubSeq(r.heap, 1, Len(charts))
           /\ last' = IF r.ok
                      THEN [op |-> "to_dict", recv |-> c, before |-> charts[c],
                            validate |-> validate, context |-> context, fault |-> fault,
                            ok |-> TRUE, val |-> r.val, log |-> r.log]
                      ELSE [op |-> "to_dict", recv |-> c, before |-> charts[c],
                            validate |-> validate, context |-> context, fault |-> fault,
                            ok |-> FALSE, exc |-> r.exc, log |-> r.log]
    /\ UNCHANGED <<sels, counter, created>>

Point == Key("mark", Leaf("point"))

\* charts as a caller builds them before serializing
DocInits ==
    { Point,
      NoKwds,
      DictUpdate(Point, Key("config", MapV(Key("view", MapV(Key("width", Leaf("200"))))))),
      DictUpdate(Point, DictUpdate(Key("$schema", Leaf("custom.json")),
                                   Key("config", MapV(NoKwds)))),
      DictUpdate(Point, Key("data", Leaf("data.csv"))),
      DictUpdate(Point, Key("data", DataFrame("rows"))),
      Key("config", MapV(Key("view", Leaf("none")))) }

ValidateModes == {"True", "False", "deep"}
Contexts == {NoKwds, Key("top_level", FALSE), Key("top_level", TRUE)}

NextToDict ==
    \/ \E kwds \in DocInits : Len(charts) < MaxDocCharts /\ NewChart(kwds)
    \/ \E a \in ChartIds : Len(charts) < MaxDocCharts /\ CallComposeOf("LayerChart", <<RefV(a)>>)
    \/ \E a \in ChartIds, b \in ChartIds :
          Len(charts) < MaxDocCharts /\ CallComposeOf("HConcatChart", <<RefV(a), RefV(b)>>)
    \/ \E c \in ChartIds, validate \in ValidateModes, context \in Contexts :
          CallToDict(c, validate, context, FALSE)
    \/ \E c \in ChartIds : CallToDict(c, "True", NoKwds, TRUE)

SpecToDict == InitMut /\ [][NextToDict]_vars

\* selections created by selection() and by Chart.interactive in one session
NextNames ==
    \/ NewSelection(FALSE, Str("None"), "single")
    \/ \E name \in ExplicitNames : NewSelection(TRUE, name, "single")
    \/ NewChart(NoKwds)
    \/ \E c \in ChartIds, hasName \in BOOLEAN, bx \in BOOLEAN, by \in BOOLEAN :
          CallInteractive(c, hasName, Brush, bx, by)

SpecNames == InitMut /\ [][NextNames]_vars

----------------------------------------------------------------------------
(* Claims *)

\* the one name of a one-name mapping
TheName(m) == CHOOSE n \in DOMAIN m : TRUE
OneName(m) == Cardinality(DOMAIN m) = 1

\* a mapping that is a channel definition: field/value and their attributes
ChannelAttributes == {"field", "value", "type", "aggregate", "bin", "timeUnit"}
IsChannelDef(v) == IsMapping(v) /\ DOMAIN v.m \subseteq ChannelAttributes

C7_AddUnion ==
    /\ last.op = "sel_add" =>
        /\ last.res \notin {last.a, last.b}
        /\ last.res \in SelIds
        /\ DOMAIN sels[last.res] = DOMAIN last.va \cup DOMAIN last.vb
        /\ \A n \in DOMAIN last.vb : sels[last.res][n] = last.vb[n]
        /\ \A n \in DOMAIN last.va \ DOMAIN last.vb : sels[last.res][n] = last.va[n]
        /\ sels[last.a] = last.va
        /\ sels[last.b] = last.vb
    /\ last.op = "sel_iadd" =>
        /\ last.res = last.a
        /\ DOMAIN sels[last.a] = DOMAIN last.va \cup DOMAIN last.vb
        /\ \A n \in DOMAIN last.vb : sels[last.a][n] = last.vb[n]
        /\ \A n \in DOMAIN last.va \ DOMAIN last.vb : sels[last.a][n] = last.va[n]
        /\ last.b # last.a => sels[last.b] = last.vb

\* C7 witness: A + B where A and B define one name differently and each holds a
\* name the other does not
C7_Witness ==
    /\ last.op = "sel_add"
    /\ \E n \in DOMAIN last.va \cap DOMAIN last.vb : last.va[n] # last.vb[n]
    /\ DOMAIN last.va \ DOMAIN last.vb # {}

\* C8: ~S on a one-name mapping is the Not node over its name (as a condition
\* predicate, {selection: {not: name}}); A & B is an And node and A | B an Or
\* node over [name of A, name of B], B a mapping or a raw name; each raises
\* the ValueError of _get_name (AmbiguousSelectionError) on a mapping of more
\* than one name.
NameOfOther == IF last.raw THEN last.b ELSE TheName(sels[last.b])
OperandsOk == OneName(sels[last.a]) /\ (last.raw \/ OneName(sels[last.b]))
OperandsAmbiguous ==
    \/ Cardinality(DOMAIN sels[last.a]) > 1
    \/ ~last.raw /\ Cardinality(DOMAIN sels[last.b]) > 1

C8_NotPart ==
    last.op = "sel_invert" =>
        /\ OneName(sels[last.a]) =>
             /\ last.res.ok
             /\ NodeToDict(last.res.val) = MapV(Key("not", NameV(TheName(sels[last.a]))))
             /\ ConditionOfPredicate([kind |-> "value", v |-> last.res.val])
                  = Ok(Key("selection", last.res.val))
        /\ Cardinality(DOMAIN sels[last.a]) > 1 => last.res = Raise(AmbiguousSelectionError)

C8_AndPart ==
    last.op = "sel_and" =>
        /\ OperandsOk =>
             last.res = Ok(NodeV("SelectionAnd",
                 Key("and", ListV(<<NameV(TheName(sels[last.a])), NameV(NameOfOther)>>))))
        /\ OperandsAmbiguous => last.res = Raise(AmbiguousSelectionError)

C8_OrPart ==
    last.op = "sel_or" =>
        /\ OperandsOk =>
             last.res = Ok(NodeV("SelectionOr",
                 Key("or", ListV(<<NameV(TheName(sels[last.a])), NameV(NameOfOther)>>))))
        /\ OperandsAmbiguous => last.res = Raise(AmbiguousSelectionError)

C8_LogicalOperators == C8_NotPart /\ C8_AndPart /\ C8_OrPart

\* C1: a mutation method (properties, encode, transform_*, resolve_*,
\* interactive) leaves every field of its receiver as it was, and what it
\* returns is a chart object that did not exist before the call.
MutationOps == {"properties", "encode", "transform", "resolve", "interactive"}

C1_CopyOnWrite ==
    last.op \in MutationOps =>
        /\ charts[last.recv] = last.before
        /\ last.ok => (last.res # last.recv /\ last.res > last.n /\ last.res \in ChartIds)

\* C1 witness: a transform is added to a chart that already holds a transform
\* list, which the copy extends
C1_Witness ==
    /\ last.op = "transform" /\ last.ok
    /\ Get(last.before, "transform") # Undefined
    /\ Len(Get(charts[last.res], "transform").l) = 2

\* the entries of created whose name was drawn from the counter
AutoCreated == {i \in 1..Len(created) : created[i].auto}

Attrs(v) == IF IsNode(v) THEN v.kwds ELSE v.m

\* C5: when encode resolves a mapping with a `field` key, every other key (type,
\* aggregate, timeUnit, ...) that both the caller's mapping and the parsed
\* shorthand hold keeps the caller's value in the resolved channel.
C5_ExplicitKeysWin ==
    (last.op = "encode" /\ last.ok) =>
        \A prop \in DOMAIN last.kwargs :
            LET v == last.kwargs[prop]
            IN  (IsMapping(v) /\ "field" \in DOMAIN v.m) =>
                    LET parsed == ParseShorthand(v.m["field"])
                        resolved == Attrs(Get(charts[last.res], "encoding").kwds[prop])
                    IN  \A k \in (DOMAIN v.m \cap DOMAIN parsed) \ {"field"} :
                            resolved[k] = v.m[k]

\* the top-level-only properties a candidate child has set, by position in TopLevelOnly
Offending(kwds) == {i \in 1..Len(TopLevelOnly) : TopLevelOnly[i] \in DOMAIN kwds
                                                  /\ kwds[TopLevelOnly[i]] # Undefined}
Least(S) == CHOOSE i \in S : \A j \in S : i <= j

\* C10: constructing LayerChart, HConcatChart, VConcatChart or RepeatChart, or applying
\* an accumulation operator (in place or copy-returning), with a candidate child that
\* has autosize, background, config or padding set fails with SubspecConstraintError
\* naming the first such property of the first such child and the variant; the failed
\* call allocates nothing and leaves the receiver as it was; and no child held by a
\* variant has one of these properties set.
C10_SubspecCheck ==
    /\ (last.op \in {"compose", "binop"} /\ \E i \in DOMAIN last.cands : Offending(last.cands[i]) # {})
          => LET i == Least({j \in DOMAIN last.cands : Offending(last.cands[j]) # {}})
             IN  /\ ~last.ok
                 /\ last.exc = SubspecConstraintError(TopLevelOnly[Least(Offending(last.cands[i]))],
                                                      last.variant)
                 /\ Len(charts) = last.n
                 /\ last.op = "binop" => charts[last.recv] = last.before
    /\ \A id \in ChartIds :
          \A i \in DOMAIN ChildrenOf(charts[id]) :
              Offending(Candidate(charts, ChildrenOf(charts[id])[i])) = {}

\* an in-place accumulation on a variant that holds a child, refused for an operand
\* that has only padding set
C10_Witness ==
    /\ last.op = "binop" /\ last.inplace /\ last.own
    /\ Len(ChildrenOf(last.before)) >= 1
    /\ Offending(last.cands[1]) = {4}
    /\ ~last.ok

\* the call that was made from outside: the last one to complete
Outermost == last.log[Len(last.log)]

\* a context that makes its call the top-level one
TopContext(context) == "top_level" \notin DOMAIN context \/ context["top_level"] = TRUE

\* C2: in every to_dict call, the outer one and the nested ones, the conversion runs
\* once in the mode the call was given; it runs a second time, in 'deep' mode, exactly
\* when the first run failed with a ValidationError; there is no further run; the call
\* returns exactly when its last run succeeded and otherwise raises that run's error.
C2_RetriedExactlyOnce ==
    last.op = "to_dict" =>
        /\ \A i \in DOMAIN last.log :
              LET e == last.log[i]
                  n == Len(e.runs)
              IN  /\ n \in {1, 2}
                  /\ e.runs[1].mode = e.validate
                  /\ n = 2 <=> e.runs[1].outcome = "ValidationError"
                  /\ n = 2 => e.runs[2].mode = "deep"
                  /\ e.ok <=> e.runs[n].outcome = "ok"
                  /\ ~e.ok => e.exc.cls = e.runs[n].outcome
        /\ Outermost.of = last.recv
        /\ Outermost.ok = last.ok
        /\ ~last.ok => last.exc = Outermost.exc

\* a call with validation on a composed chart that holds an invalid child: two runs,
\* the second one raises
C2_Witness ==
    /\ last.op = "to_dict" /\ last.validate = "True" /\ ~last.fault
    /\ Len(last.log) > 2
    /\ Len(Outermost.runs) = 2
    /\ ~last.ok /\ last.exc = ValidationError

\* C3: every to_dict call reached by recursive descent gets a context whose top_level
\* is false; a call whose context has top_level false returns the converted document
\* as it is, without `$schema` or defaults added; a call that is top-level returns a
\* document whose `$schema` is the one the chart set, or else the schema URL.
C3_OnlyOutermostFinalizes ==
    last.op = "to_dict" =>
        /\ \A i \in 1..(Len(last.log) - 1) : ~TopContext(last.log[i].context)
        /\ \A i \in DOMAIN last.log :
              LET e == last.log[i]
              IN  e.ok =>
                    IF TopContext(e.context)
                    THEN /\ "$schema" \in DOMAIN e.returned.m
                         /\ e.returned.m["$schema"] =
                               IF "$schema" \in DOMAIN e.converted.m
                               THEN e.converted.m["$schema"] ELSE SCHEMA_URL
                    ELSE e.returned = e.converted
        /\ last.ok => last.val = Outermost.returned

\* a top-level call on a composed chart with two children: the children's documents
\* carry no `$schema`, the result carries the schema URL
C3_Witness ==
    /\ last.op = "to_dict" /\ last.ok /\ TopContext(last.context)
    /\ Len(last.log) = 3
    /\ \A i \in 1..2 : "$schema" \notin DOMAIN last.log[i].returned.m
    /\ last.val.m["$schema"] = SCHEMA_URL

\* every value of the dict update is in res at the same path
RECURSIVE Keeps(_, _)
Keeps(res, update) ==
    \A k \in DOMAIN update :
        /\ k \in DOMAIN res
        /\ IF IsMapping(update[k])
           THEN IsMapping(res[k]) /\ Keeps(res[k].m, update[k].m)
           ELSE res[k] = update[k]

\* every default that update sets no value on the path of is in res
RECURSIVE FillsIn(_, _, _)
FillsIn(res, update, defaults) ==
    \A k \in DOMAIN defaults :
        IF k \notin DOMAIN update THEN k \in DOMAIN res /\ res[k] = defaults[k]
        ELSE (IsMapping(defaults[k]) /\ IsMapping(update[k]))
                => (IsMapping(res[k]) /\ FillsIn(res[k].m, update[k].m, defaults[k].m))

\* C4: a top-level to_dict call returns a document that keeps every value of the
\* converted document at its path, and holds every default value
\* (config.view.width 400, config.view.height 300) on whose path the converted
\* document sets nothing.
C4_DefaultsUnderneath ==
    (last.op = "to_dict" /\ last.ok /\ TopContext(last.context)) =>
        /\ Keeps(last.val.m, Outermost.converted.m)
        /\ FillsIn(last.val.m, Outermost.converted.m, DefaultSpecValues.m)

\* a chart with config.view.width 200 serialized: width stays 200, height is 300
C4_Witness ==
    /\ last.op = "to_dict" /\ last.ok /\ TopContext(last.context)
    /\ "config" \in DOMAIN Outermost.converted.m
    /\ Outermost.converted.m["config"] = MapV(Key("view", MapV(Key("width", Leaf("200")))))
    /\ last.val.m["config"].m["view"].m = [width |-> Leaf("200"), height |-> Leaf("300")]

----------------------------------------------------------------------------
(* Accumulation *)

\* a value with every chart it refers to replaced by that chart's contents
RECURSIVE ValueOf(_, _)
ValueOf(h, v) ==
    IF v.tag = "ref"
    THEN [tag |-> "chart", cls |-> h[v.id].cls,
          kwds |-> [k \in DOMAIN h[v.id].kwds |-> ValueOf(h, h[v.id].kwds[k])]]
    ELSE IF v.tag = "list" THEN ListV([i \in DOMAIN v.l |-> ValueOf(h, v.l[i])])
    ELSE v

\* C11: op= on the variant that defines it appends the operand to the receiver's own
\* child list, allocates nothing and returns the receiver; op on the same variant
\* returns another, new chart of the same variant whose children are, by value, the
\* receiver's children followed by the operand itself, and leaves the receiver as it
\* was; chart1 + chart2 on two Chart objects is a new LayerChart whose only keyword
\* is layer = [chart1, chart2], the two objects themselves, in that order.
C11_Accumulate ==
    (last.op = "binop" /\ last.ok) =>
        LET recv == last.recv
            res == last.res
            ck == ChildKey(last.variant)
            old == last.before.kwds[ck].l
        IN  /\ (last.own /\ last.inplace) =>
                   /\ res = recv
                   /\ Len(charts) = last.n
                   /\ charts[recv] = SetAttr(last.before, ck, ListV(old \o <<last.other>>))
            /\ (last.own /\ ~last.inplace) =>
                   /\ res # recv
                   /\ res > last.n
                   /\ charts[recv] = last.before
                   /\ charts[res].cls = last.before.cls
                   /\ Len(charts[res].kwds[ck].l) = Len(old) + 1
                   /\ charts[res].kwds[ck].l[Len(old) + 1] = last.other
                   /\ ValueOf(charts, charts[res].kwds[ck]) =
                          ValueOf(charts, ListV(old \o <<last.other>>))
            /\ (/\ last.sym = "+"
                /\ last.before.cls = "Chart"
                /\ last.other.tag = "ref"
                /\ charts[last.other.id].cls = "Chart") =>
                   /\ res = last.n + 1
                   /\ charts[res] = Obj("LayerChart",
                                        Key("layer", ListV(<<RefV(recv), last.other>>)))
                   /\ charts[recv] = last.before

\* a LayerChart of one chart + a different chart: the copy holds both, in that order
C11_Witness ==
    /\ last.op = "binop"
    /\ last.ok
    /\ last.own
    /\ ~last.inplace
    /\ Len(last.before.kwds[ChildKey(last.variant)].l) = 1
    /\ last.other.tag = "ref"
    /\ charts[last.other.id] # charts[last.before.kwds[ChildKey(last.variant)].l[1].id]
    /\ Len(charts[last.res].kwds[ChildKey(last.variant)].l) = 2

----------------------------------------------------------------------------
(* Data normalization *)

\* the entry of the log for the call the caller made: the last one completed
OwnEntry == last.log[Len(last.log)]

\* C12: after a to_dict call on a chart whose data is a tabular value, the chart
\* itself holds the normalized data reference in place of the tabular value, so
\* that a to_dict call on it now would not run the pipeline.
C12_NormalizationCached ==
    (last.op = "to_dict" /\ Get(last.before, "data").tag = "df") =>
        /\ OwnEntry.piped
        /\ Get(charts[last.recv], "data") = Pipe(Get(last.before, "data"))
        /\ ~RunsPipeline(charts[last.recv])

----------------------------------------------------------------------------
(* Transforms *)

\* the transform sequence of a chart object
TransformsOf(obj) ==
    IF Get(obj, "transform") = Undefined THEN <<>> ELSE Get(obj, "transform").l

\* C13: a transform_* call returns a new chart whose transform sequence is the
\* receiver's sequence, every node in its place, followed by the node the call
\* added, also when an equal node is in the sequence already; the receiver keeps
\* its sequence.  A sequence of calls therefore yields the starting chart's
\* sequence followed by the added nodes in call order.
C13_TransformsAppended ==
    (last.op = "transform") =>
        /\ last.ok
        /\ last.res = last.n + 1
        /\ TransformsOf(charts[last.res]) = TransformsOf(last.before) \o <<last.added>>
        /\ charts[last.res] = SetAttr(last.before, "transform",
                                      ListV(TransformsOf(last.before) \o <<last.added>>))
        /\ charts[last.recv] = last.before

\* three nodes in call order after the constructor's one, the same node added twice
C13_Witness ==
    /\ last.op = "transform"
    /\ Len(TransformsOf(charts[last.res])) = 3
    /\ Len(TransformsOf(charts[1])) = 1
    /\ TransformsOf(charts[last.res])[1] = TransformsOf(charts[1])[1]
    /\ TransformsOf(charts[last.res])[2] = TransformsOf(charts[last.res])[3]

----------------------------------------------------------------------------
(* Chart.interactive *)

\* the selection mapping of a chart object, empty when it has none
SelectionsOf(obj) ==
    IF Get(obj, "selection") = Undefined THEN NoKwds ELSE Get(obj, "selection").sm

\* the names interactive added: those of the copy's mapping the receiver's lacks
AddedNames == DOMAIN SelectionsOf(charts[last.res]) \ DOMAIN SelectionsOf(last.before)

\* the part of C14 about the copy and the selection added: interactive returns a
\* new chart, leaves the receiver as it was, keeps every selection the receiver
\* had and adds exactly one, an interval selection bound to scales whose encodings
\* are 'x' if bind_x followed by 'y' if bind_y.
C14_ScalesPart ==
    (last.op = "interactive") =>
        /\ last.ok
        /\ last.res = last.n + 1
        /\ charts[last.recv] = last.before
        /\ \A n \in DOMAIN SelectionsOf(last.before) :
              /\ n \in DOMAIN SelectionsOf(charts[last.res])
              /\ SelectionsOf(charts[last.res])[n] = SelectionsOf(last.before)[n]
        /\ Cardinality(AddedNames) = 1
        /\ \A n \in AddedNames :
              SelectionsOf(charts[last.res])[n] =
                  [type |-> "interval", bind |-> "scales",
                   encodings |-> (IF last.bind_x THEN <<"x">> ELSE <<>>)
                                 \o (IF last.bind_y THEN <<"y">> ELSE <<>>)]

\* C14: interactive(name, bind_x, bind_y) returns a copy that holds every selection
\* the receiver had plus one interval selection bound to scales on the encodings
\* bind_x and bind_y choose, and that selection carries the name argument when the
\* caller gave one.
C14_Interactive ==
    /\ C14_ScalesPart
    /\ (last.op = "interactive" /\ last.hasName) => AddedNames = {last.name}

=============================================================================
